---------------------------- MODULE Spec2Model ----------------------------
(***************************************************************************)
(* Model of "Data Mining and Dataset/dataset-builder.py": the scan of      *)
(* merged pull requests, the issue-centric graph builder, the JSON cache   *)
(* artifact, the CSV row flattener and the main loop over repositories.    *)
(*                                                                         *)
(* Text on which the program performs string operations (join, lstrip,     *)
(* replace, str(int)) is a sequence of one-character strings; text that is *)
(* only copied is a TLA+ string.  A Python dict is the sequence of its     *)
(* (key, value) entries in insertion order.  An optional value is          *)
(* [some |-> v] or None.                                                   *)
(***************************************************************************)
EXTENDS Integers, Sequences, FiniteSets, TLC

VARIABLES
    \* ---- build_issue_solver_data / generate_csv_rows on one repository
    repo,               \* the remote repository object handed to the builder
    max_prs,            \* the max_prs argument
    scan,               \* loop state of lines 147-182
    bpc,                \* position inside the builder
    \* ---- main
    gh,                 \* what the remote source answers during this run
    cache,              \* cache file name -> file content
    pc,                 \* position inside main
    idx,                \* index into REPO_LIST of the repository in hand
    run,                \* number of the current run of the program
    all_csv_rows,       \* main's all_csv_rows
    csv_file,           \* content of CSV_OUTPUT
    log,                \* lines printed by main during this run
    \* ---- shared locals
    issue_solver_data,  \* the issue map in hand
    csv_rows            \* result of the last generate_csv_rows call

vars == <<repo, max_prs, scan, bpc, gh, cache, pc, idx, run, all_csv_rows,
          csv_file, log, issue_solver_data, csv_rows>>

-----------------------------------------------------------------------------
(* Bounds of the model *)

MaxPulls == 3       \* longest closed-PR listing explored by SpecBuild
MaxCap == 2         \* largest max_prs explored by SpecBuild
MaxRuns == 2        \* runs of main explored by Spec

-----------------------------------------------------------------------------
(* Python values *)

None == [none |-> TRUE]
Some(v) == [some |-> v]
IsNone(o) == o = None

Range(s) == {s[i] : i \in DOMAIN s}

RECURSIVE SetToSeq(_)
\* list(a_set): some enumeration of the set (Python leaves the order open;
\* no formula below depends on it).
SetToSeq(S) ==
    IF S = {} THEN <<>>
    ELSE LET x == CHOOSE y \in S : TRUE IN <<x>> \o SetToSeq(S \ {x})

\* dict helpers: a dict is a sequence of [key, value] entries
HasKey(d, k) == \E i \in DOMAIN d : d[i].key = k
Lookup(d, k) == d[CHOOSE i \in DOMAIN d : d[i].key = k].value
\* d[k] = v
DictSet(d, k, v) ==
    IF HasKey(d, k)
    THEN [i \in DOMAIN d |-> IF d[i].key = k THEN [key |-> k, value |-> v] ELSE d[i]]
    ELSE Append(d, [key |-> k, value |-> v])

-----------------------------------------------------------------------------
(* Strings *)

Digit == <<"0", "1", "2", "3", "4", "5", "6", "7", "8", "9">>

RECURSIVE ToStr(_)
\* str(n) / f"{n}" for a non-negative integer
ToStr(n) ==
    IF n < 10 THEN <<Digit[n + 1]>>
    ELSE ToStr(n \div 10) \o <<Digit[(n % 10) + 1]>>

RECURSIVE join(_, _)
\* delim.join(strs)
join(delim, strs) ==
    IF strs = <<>> THEN <<>>
    ELSE IF Len(strs) = 1 THEN strs[1]
    ELSE strs[1] \o delim \o join(delim, Tail(strs))

RECURSIVE lstrip(_, _)
\* s.lstrip(chars): drops every leading character that occurs in chars
lstrip(s, chars) ==
    IF s # <<>> /\ Head(s) \in Range(chars) THEN lstrip(Tail(s), chars) ELSE s

RECURSIVE replace_char(_, _, _)
\* s.replace(old, new) for a one-character old
replace_char(s, old, new) ==
    IF s = <<>> THEN <<>>
    ELSE (IF Head(s) = old THEN new ELSE <<Head(s)>>) \o replace_char(Tail(s), old, new)

\* datetime.isoformat()
isoformat(dt) ==
    CASE dt.dt = 1 -> "2024-01-01T00:00:00"
      [] dt.dt = 2 -> "2024-02-02T00:00:00"
      [] OTHER -> "2024-03-03T00:00:00"

-----------------------------------------------------------------------------
(* Configuration, lines 27-42 *)

REPO_LIST == << <<"t", "/", "t">>, <<"n", "/", "n">> >>
COMMENT_DELIMITER == <<" ", "|", "|", " ">>
FILE_CHANGE_DELIMITER == <<" ", "|", "|", " ">>
COMMIT_MSG_DELIMITER == <<" ", "|", "|", " ">>
PATCH_NEWLINE_DELIMITER == <<"|", ";", "|">>

sanitize_repo_name(repo_name) == replace_char(repo_name, "/", <<"_">>)

\* os.path.join(CACHE_DIR, f"issue_solver_data_{sanitized_name}.json")
cache_file_of(repo_name) ==
    <<"cache/issue_solver_data_">> \o sanitize_repo_name(repo_name) \o <<".json">>

-----------------------------------------------------------------------------
(* The remote source (PyGithub objects), as the program reads it.          *)
(*   repository: [pulls  |-> the closed-PR listing, most recently updated  *)
(*                           first,                                        *)
(*                issues |-> issue number -> Some(issue) or None]           *)
(*   pull:  [number, listed, complete, merged, title, user, merged_at,     *)
(*           merged_by, body, detail, files, commits]                      *)
(*     listed   : FALSE when retrieving this item of the paginated listing *)
(*                raises (the page request fails)                          *)
(*     complete : FALSE when reading pr.merged raises (the listing does    *)
(*                not carry "merged"; PyGithub fetches the PR to get it)   *)
(*     detail   : FALSE when repo.get_pull(number) raises                  *)
(*   a body is a sequence of tokens [word, ref]: a word, followed by       *)
(*   "[\s:]+#<ref>" when ref is a non-empty digit string                   *)
(***************************************************************************)

\* repo.get_issue(number): Some(issue), or None when the call raises
get_issue(r, number) ==
    IF number \in DOMAIN r.issues THEN r.issues[number] ELSE None

\* repo.get_pull(number): Some(pull), or None when the call raises
get_pull(r, number) ==
    LET hits == {i \in DOMAIN r.pulls :
                    r.pulls[i].number = number /\ r.pulls[i].detail}
    IN IF hits = {} THEN None ELSE Some(r.pulls[CHOOSE i \in hits : TRUE])

\* lines 50-82
get_issue_details(r, issue_number) ==
    LET got == get_issue(r, issue_number) IN
    IF IsNone(got)
    THEN [body |-> "", comments |-> <<>>, state |-> "", created_at |-> "",
          closed_at |-> "", opened_by |-> "", labels |-> <<>>]
    ELSE LET issue == got.some IN
         [body |-> IF IsNone(issue.body) THEN "" ELSE issue.body.some,
          comments |-> join(COMMENT_DELIMITER, issue.comments),
          state |-> issue.state,
          created_at |-> IF IsNone(issue.created_at) THEN ""
                         ELSE isoformat(issue.created_at.some),
          closed_at |-> IF IsNone(issue.closed_at) THEN ""
                        ELSE isoformat(issue.closed_at.some),
          opened_by |-> IF IsNone(issue.user) THEN "" ELSE issue.user.some,
          labels |-> join(<<",", " ">>, issue.labels)]

\* lines 84-102
fetch_pr_file_changes(r, pr_number) ==
    LET got == get_pull(r, pr_number) IN
    IF IsNone(got) THEN <<>>
    ELSE LET files == got.some.files IN
         [i \in DOMAIN files |->
            [filename |-> files[i].filename,
             additions |-> files[i].additions,
             deletions |-> files[i].deletions,
             changes |-> files[i].changes,
             status |-> files[i].status,
             patch |-> IF IsNone(files[i].patch) THEN <<>>
                       ELSE replace_char(files[i].patch.some, "\n",
                                         PATCH_NEWLINE_DELIMITER)]]

\* lines 104-112
fetch_commit_messages(r, pr_number) ==
    LET got == get_pull(r, pr_number) IN
    IF IsNone(got) THEN <<>>
    ELSE LET commits == got.some.commits IN
         join(COMMIT_MSG_DELIMITER, [i \in DOMAIN commits |-> commits[i].message])

\* lines 114-125
get_pr_contributors(r, pr_number) ==
    LET got == get_pull(r, pr_number) IN
    IF IsNone(got) THEN <<>>
    ELSE LET commits == got.some.commits IN
         SetToSeq({commits[i].author.some :
                     i \in {j \in DOMAIN commits : ~IsNone(commits[j].author)}})

\* lines 127-138
format_file_changes(pr_number, file_changes) ==
    join(FILE_CHANGE_DELIMITER,
         [i \in DOMAIN file_changes |->
            <<"PR#">> \o ToStr(pr_number) \o <<" - ">> \o file_changes[i].filename
                \o <<": ">> \o file_changes[i].patch])

-----------------------------------------------------------------------------
(* build_issue_solver_data, Step 1: the scan loop, lines 147-182 *)

lower_char(c) ==
    CASE c = "F" -> "f" [] c = "C" -> "c" [] c = "I" -> "i" [] OTHER -> c
\* str.lower()
lower(s) == [i \in DOMAIN s |-> lower_char(s[i])]

EndsWith(s, t) ==
    Len(t) <= Len(s) /\ SubSeq(s, Len(s) - Len(t) + 1, Len(s)) = t

RECURSIVE ToInt(_)
\* int(digits)
ToInt(digits) ==
    IF digits = <<>> THEN 0
    ELSE LET d == CHOOSE k \in 0..9 : Digit[k + 1] = digits[Len(digits)]
         IN 10 * ToInt(SubSeq(digits, 1, Len(digits) - 1)) + d

\* lines 152-155: the keyword alternations of the two patterns
closing_patterns ==
    << { <<"c","l","o","s","e">>, <<"c","l","o","s","e","s">>,
         <<"c","l","o","s","e","d">>, <<"f","i","x">>, <<"f","i","x","e","s">>,
         <<"f","i","x","e","d">>, <<"r","e","s","o","l","v","e">>,
         <<"r","e","s","o","l","v","e","s">>, <<"r","e","s","o","l","v","e","d">> },
       { <<"i","s","s","u","e">>, <<"i","s","s","u","e","s">> } >>

RECURSIVE findall(_, _)
\* re.findall(pattern, text): the captured digit strings, in text order.  The
\* pattern is not anchored at a word start, so a word matches when it ends
\* with one of the keywords and "[\s:]+#<digits>" follows.
findall(pattern, text) ==
    IF text = <<>> THEN <<>>
    ELSE LET tok == Head(text)
             hit == tok.ref # <<>> /\ \E kw \in pattern : EndsWith(tok.word, kw)
         IN (IF hit THEN <<tok.ref>> ELSE <<>>) \o findall(pattern, Tail(text))

\* lines 170-175
referenced_issues_of(pr) ==
    IF IsNone(pr.body) \/ pr.body = Some(<<>>) THEN <<>>
    ELSE LET text == [i \in DOMAIN pr.body.some |->
                        [word |-> lower(pr.body.some[i].word),
                         ref |-> pr.body.some[i].ref]]
             m1 == findall(closing_patterns[1], text)
             m2 == findall(closing_patterns[2], text)
         IN [i \in DOMAIN (m1 \o m2) |-> ToInt((m1 \o m2)[i])]

\* lines 162-169 and 175
pr_info_of(pr) ==
    [number |-> pr.number,
     title |-> pr.title,
     author |-> pr.user.some,
     merged_at |-> IF IsNone(pr.merged_at) THEN None
                   ELSE Some(isoformat(pr.merged_at.some)),
     merged_by |-> IF IsNone(pr.merged_by) THEN None ELSE Some(pr.merged_by.some),
     referenced_issues |-> referenced_issues_of(pr)]

\* lines 147-148
ScanStart ==
    [pos |-> 0, processed_count |-> 0, pr_issue_mapping |-> <<>>, status |-> "loop"]

\* line 178
CapReached(processed_count, cap) == processed_count >= cap

\* One pass of "for pr in merged_prs", lines 157-182.  status: "loop" while
\* the loop goes on, "break" (line 179), "exhausted" (the listing ended),
\* "raised" (the listing raised: the for statement is outside the try).
ScanIter(s, r, cap) ==
    IF s.pos = Len(r.pulls) THEN [s EXCEPT !.status = "exhausted"]
    ELSE LET pr == r.pulls[s.pos + 1]
             s1 == [s EXCEPT !.pos = @ + 1]
         IN IF ~pr.listed THEN [s EXCEPT !.status = "raised"]
            ELSE IF ~pr.complete THEN s1                 \* pr.merged raises: 180-182
            ELSE IF ~pr.merged THEN s1                   \* 159-160
            ELSE LET s2 == [s1 EXCEPT !.processed_count = @ + 1]    \* 161
                 IN IF IsNone(pr.user) THEN s2           \* pr.user.login raises: 180-182
                    ELSE LET info == pr_info_of(pr)
                             s3 == IF info.referenced_issues # <<>>
                                   THEN [s2 EXCEPT !.pr_issue_mapping =
                                               DictSet(@, pr.number, info)]
                                   ELSE s2
                         IN IF CapReached(s3.processed_count, cap)
                            THEN [s3 EXCEPT !.status = "break"]
                            ELSE s3

RECURSIVE ScanLoop(_, _, _)
ScanLoop(s, r, cap) ==
    IF s.status # "loop" THEN s ELSE ScanLoop(ScanIter(s, r, cap), r, cap)

-----------------------------------------------------------------------------
(* build_issue_solver_data, Step 2: issue-centric mapping, lines 184-203 *)

IntKey(n) == [int |-> n]
StrKey(n) == [str |-> ToStr(n)]

\* lines 189-196
NewIssue(issue_number) ==
    [issue_number |-> issue_number, title |-> None, linked_prs |-> <<>>,
     solvers |-> {}, file_changes |-> <<>>, commit_messages |-> <<>>]

\* lines 188-203 for one (pr_data, issue_number)
LinkOne(data, pr_data, issue_number) ==
    LET d1 == IF HasKey(data, IntKey(issue_number)) THEN data
              ELSE DictSet(data, IntKey(issue_number), NewIssue(issue_number))
        node == Lookup(d1, IntKey(issue_number))
        stub == [number |-> pr_data.number, title |-> pr_data.title,
                 merged_at |-> pr_data.merged_at, merged_by |-> pr_data.merged_by]
    IN DictSet(d1, IntKey(issue_number),
               [node EXCEPT !.linked_prs = Append(@, stub)])

RECURSIVE LinkRefs(_, _, _)
\* line 187
LinkRefs(data, pr_data, refs) ==
    IF refs = <<>> THEN data
    ELSE LinkRefs(LinkOne(data, pr_data, Head(refs)), pr_data, Tail(refs))

RECURSIVE InvertFrom(_, _)
\* line 186
InvertFrom(data, mapping) ==
    IF mapping = <<>> THEN data
    ELSE InvertFrom(LinkRefs(data, Head(mapping).value,
                             Head(mapping).value.referenced_issues),
                    Tail(mapping))

Invert(mapping) == InvertFrom(<<>>, mapping)

-----------------------------------------------------------------------------
(* build_issue_solver_data, Step 3: enrichment, lines 205-236 *)

\* dict.update(new)
update(node, new) == new @@ node
\* dict.get(k, default)
Get(node, k, default) == IF k \in DOMAIN node THEN node[k] ELSE default

\* lines 207-218
WithIssueDetails(r, node) ==
    LET got == get_issue(r, node.issue_number) IN
    IF IsNone(got) THEN node
    ELSE LET issue == got.some IN
         update(node,
            [title |-> Some(issue.title),
             labels |-> issue.labels,
             state |-> issue.state,
             created_at |-> IF IsNone(issue.created_at) THEN ""
                            ELSE isoformat(issue.created_at.some),
             closed_at |-> IF IsNone(issue.closed_at) THEN ""
                           ELSE isoformat(issue.closed_at.some),
             opened_by |-> IF IsNone(issue.user) THEN "" ELSE issue.user.some])

\* line 234: the text added for one linked PR
CommitPiece(commit_msgs) ==
    IF commit_msgs # <<>> THEN COMMIT_MSG_DELIMITER \o commit_msgs ELSE <<>>

RECURSIVE Accumulate(_)
\* line 234 over the linked PRs, in order
Accumulate(msgs) ==
    IF msgs = <<>> THEN <<>>
    ELSE CommitPiece(Head(msgs)) \o Accumulate(Tail(msgs))

\* lines 221-236 for one issue
WithPrDetails(r, node) ==
    LET prs == node.linked_prs
        fc == [i \in DOMAIN prs |->
                 format_file_changes(prs[i].number,
                                     fetch_pr_file_changes(r, prs[i].number))]
        cm == [i \in DOMAIN prs |-> fetch_commit_messages(r, prs[i].number)]
        who == UNION {Range(get_pr_contributors(r, prs[i].number)) : i \in DOMAIN prs}
    IN [node EXCEPT
          !.linked_prs = [i \in DOMAIN prs |->
                            [file_changes |-> fc[i], commit_messages |-> cm[i]]
                                @@ prs[i]],
          !.file_changes = node.file_changes \o fc,
          !.commit_messages = node.commit_messages \o Accumulate(cm),
          !.solvers = SetToSeq(node.solvers \cup who)]        \* 231-232, 236

\* lines 206-236
Enrich(r, data) ==
    [i \in DOMAIN data |->
        [key |-> data[i].key,
         value |-> WithPrDetails(r, WithIssueDetails(r, data[i].value))]]

\* lines 141-238: Some(issue map), or None when an exception leaves the function
build_issue_solver_data(r, cap) ==
    LET s == ScanLoop(ScanStart, r, cap) IN
    IF s.status = "raised" THEN None
    ELSE Some(Enrich(r, Invert(s.pr_issue_mapping)))

-----------------------------------------------------------------------------
(* generate_csv_rows, lines 241-276 *)

\* line 251
StripLeadingDelimiter(text) == lstrip(text, COMMIT_MSG_DELIMITER)

\* lines 253-255
SolversOrUnknown_noSentinel(solvers) == solvers
SolversOrUnknown(solvers) == IF solvers = <<>> THEN <<"unknown">> ELSE solvers

\* lines 248-275 for one issue
RowsOfIssue(issue_data, r, repo_name) ==
    LET linked_prs == Get(issue_data, "linked_prs", <<>>)
        linked_pr_count == Len(linked_prs)
        modified_files == join(FILE_CHANGE_DELIMITER, Get(issue_data, "file_changes", <<>>))
        commit_messages == StripLeadingDelimiter(Get(issue_data, "commit_messages", <<>>))
        solvers == SolversOrUnknown(Get(issue_data, "solvers", <<>>))
        issue_details == get_issue_details(r, Get(issue_data, "issue_number", 0))
    IN [i \in DOMAIN solvers |->
          [repo_name |-> repo_name,
           contributor_id |-> solvers[i],
           issue_id |-> issue_data.issue_number,
           issue_title |-> Get(issue_data, "title", None),
           issue_body |-> issue_details.body,
           issue_comments |-> issue_details.comments,
           issue_state |-> Get(issue_data, "state", ""),
           issue_created_at |-> Get(issue_data, "created_at", ""),
           issue_closed_at |-> Get(issue_data, "closed_at", ""),
           opened_by |-> Get(issue_data, "opened_by", ""),
           issue_labels |-> join(<<",", " ">>, Get(issue_data, "labels", <<>>)),
           linked_pr_count |-> linked_pr_count,
           modified_source_files |-> modified_files,
           commit_messages |-> commit_messages]]

RECURSIVE generate_csv_rows(_, _, _)
generate_csv_rows(data, r, repo_name) ==
    IF data = <<>> THEN <<>>
    ELSE RowsOfIssue(Head(data).value, r, repo_name)
            \o generate_csv_rows(Tail(data), r, repo_name)

-----------------------------------------------------------------------------
(* The cache artifact, lines 291-304.  A file is NoFile (absent), Truncated *)
(* (created by open(..., "w") and not yet, or not completely, written: no   *)
(* strict prefix of a JSON object is a JSON document) or [json |-> doc].    *)

NoFile == [nofile |-> TRUE]
Truncated == [truncated |-> TRUE]

\* os.path.exists(cache_file)
CacheExists_never(file) == FALSE
CacheExists(file) == file # NoFile

\* json.dump turns every int key of a dict into its decimal string; None is
\* written as null and read back as None, lists and strings as themselves.
json_dump(data) ==
    [json |-> [i \in DOMAIN data |->
                 [key |-> IF "int" \in DOMAIN data[i].key
                          THEN StrKey(data[i].key.int) ELSE data[i].key,
                  value |-> data[i].value]]]

\* json.load: Some(dict), or None when the content is not a JSON document
json_load(file) == IF "json" \in DOMAIN file THEN Some(file.json) ELSE None

-----------------------------------------------------------------------------
(* Remote data the model draws its inputs from *)

Tok(word, ref) == [word |-> word, ref |-> ref]
W_fixes == <<"f","i","x","e","s">>
W_Fixes == <<"F","i","x","e","s">>
W_closes == <<"c","l","o","s","e","s">>
W_issue == <<"i","s","s","u","e">>
W_prefix == <<"p","r","e","f","i","x">>
W_see == <<"s","e","e">>

File1 ==
    [filename |-> <<"f">>, additions |-> 1, deletions |-> 1, changes |-> 2,
     status |-> "modified", patch |-> Some(<<"+", "x", "\n", "-", "y">>)]
FileBinary ==
    [filename |-> <<"g">>, additions |-> 0, deletions |-> 0, changes |-> 0,
     status |-> "added", patch |-> None]

Commit(message, author) == [message |-> message, author |-> author]
CommitsA == << Commit(<<"a">>, Some("alice")) >>
CommitsB == << Commit(<<" ", "b">>, Some("bob")), Commit(<<"a">>, Some("alice")) >>
CommitsN == << Commit(<<"|", "c">>, None) >>

BasePull ==
    [listed |-> TRUE, complete |-> TRUE, merged |-> TRUE, title |-> "T",
     user |-> Some("dave"), merged_at |-> Some([dt |-> 1]),
     merged_by |-> Some("erin"), body |-> Some(<<Tok(W_fixes, <<"1">>)>>),
     detail |-> TRUE, files |-> <<File1>>, commits |-> CommitsA]

PullKinds ==
    { BasePull,
      [BasePull EXCEPT !.commits = CommitsB],
      [BasePull EXCEPT !.commits = CommitsN, !.files = <<File1, FileBinary>>],
      [BasePull EXCEPT !.commits = <<>>],
      [BasePull EXCEPT !.body = Some(<<Tok(W_fixes, <<"1">>), Tok(W_closes, <<"1">>)>>)],
      [BasePull EXCEPT !.body = Some(<<Tok(W_issue, <<"2">>), Tok(W_see, <<>>),
                                       Tok(W_Fixes, <<"1">>)>>),
                       !.commits = CommitsB],
      [BasePull EXCEPT !.body = None],
      [BasePull EXCEPT !.body = Some(<<Tok(W_see, <<"1">>)>>)],
      [BasePull EXCEPT !.body = Some(<<Tok(W_prefix, <<"2">>)>>), !.merged_by = None],
      [BasePull EXCEPT !.merged = FALSE, !.merged_at = None, !.merged_by = None],
      [BasePull EXCEPT !.listed = FALSE],
      [BasePull EXCEPT !.complete = FALSE],
      [BasePull EXCEPT !.user = None],
      [BasePull EXCEPT !.detail = FALSE] }

\* pull numbers are unique within a repository
Numbered(kinds) == [i \in DOMAIN kinds |-> [number |-> 10 + i] @@ kinds[i]]

IssueOpen ==
    [title |-> "bug", body |-> Some("it breaks"), comments |-> << <<"c">> >>,
     state |-> "open", created_at |-> Some([dt |-> 1]), closed_at |-> None,
     user |-> Some("carol"), labels |-> << <<"b", "u", "g">> >>]
IssueClosed ==
    [IssueOpen EXCEPT !.state = "closed", !.closed_at = Some([dt |-> 2]),
                      !.comments = << <<"c">>, <<"d">> >>,
                      !.labels = << <<"b", "u", "g">>, <<"p", "1">> >>]
IssueBare ==
    [IssueOpen EXCEPT !.body = None, !.comments = <<>>, !.labels = <<>>]

IssueTables ==
    { <<Some(IssueClosed), Some(IssueBare)>>, <<Some(IssueOpen), None>> }

BuildRepos ==
    { [pulls |-> Numbered(ks), issues |-> t] :
        ks \in UNION {[1..n -> PullKinds] : n \in 0..MaxPulls}, t \in IssueTables }

-----------------------------------------------------------------------------
(* Specification SpecBuild: one call of build_issue_solver_data followed by *)
(* generate_csv_rows, the scan loop taken one pass at a time.               *)

mainVars == <<gh, cache, pc, idx, run, all_csv_rows, csv_file, log>>

InitBuild ==
    /\ repo \in BuildRepos
    /\ max_prs \in 1..MaxCap
    /\ scan = ScanStart
    /\ bpc = "scan"
    /\ issue_solver_data = <<>>
    /\ csv_rows = <<>>
    /\ gh = <<>> /\ cache = <<>> /\ pc = "idle" /\ idx = 0 /\ run = 0
    /\ all_csv_rows = <<>> /\ csv_file = <<>> /\ log = <<>>

\* lines 157-182, one pass
ScanStep ==
    /\ bpc = "scan"
    /\ scan' = ScanIter(scan, repo, max_prs)
    /\ bpc' = CASE scan'.status = "loop" -> "scan"
                [] scan'.status = "raised" -> "raised"
                [] OTHER -> "scanned"
    /\ UNCHANGED <<repo, max_prs, issue_solver_data, csv_rows, mainVars>>

\* lines 184-203
InvertStep ==
    /\ bpc = "scanned"
    /\ issue_solver_data' = Invert(scan.pr_issue_mapping)
    /\ bpc' = "inverted"
    /\ UNCHANGED <<repo, max_prs, scan, csv_rows, mainVars>>

\* lines 205-238
EnrichStep ==
    /\ bpc = "inverted"
    /\ issue_solver_data' = Enrich(repo, issue_solver_data)
    /\ bpc' = "returned"
    /\ UNCHANGED <<repo, max_prs, scan, csv_rows, mainVars>>

\* lines 241-276
FlattenStep ==
    /\ bpc = "returned"
    /\ csv_rows' = generate_csv_rows(issue_solver_data, repo, REPO_LIST[1])
    /\ bpc' = "flattened"
    /\ UNCHANGED <<repo, max_prs, scan, issue_solver_data, mainVars>>

NextBuild == ScanStep \/ InvertStep \/ EnrichStep \/ FlattenStep

SpecBuild == InitBuild /\ [][NextBuild]_vars

-----------------------------------------------------------------------------
(* Specification Spec: main, lines 279-336, run after run over one cache    *)
(* directory.  The remote source may answer differently in every run.       *)

MAX_PRS == 500

NoRepo == [norepo |-> TRUE]

\* gh.get_repo(repo_name): Some(repository), or None when the call raises.
\* A call may also fail although the repository exists (network, rate limit):
\* the callers draw that outcome as "up".
get_repo(hub, repo_name) ==
    IF hub[repo_name] = NoRepo THEN None ELSE Some(hub[repo_name])

OnePull(kind) == Numbered(<<kind>>)

MainRepos ==
    { [pulls |-> OnePull([BasePull EXCEPT !.commits = CommitsB]),
       issues |-> <<Some(IssueOpen), None>>],
      [pulls |-> OnePull([BasePull EXCEPT !.commits = CommitsB]),
       issues |-> <<Some(IssueClosed), None>>],
      [pulls |-> Numbered(<<[BasePull EXCEPT !.commits = CommitsN],
                            [BasePull EXCEPT !.body = Some(<<Tok(W_issue, <<"2">>)>>)]>>),
       issues |-> <<Some(IssueClosed), Some(IssueBare)>>],
      [pulls |-> Numbered(<<BasePull, [BasePull EXCEPT !.listed = FALSE]>>),
       issues |-> <<Some(IssueOpen), None>>],
      [pulls |-> <<>>, issues |-> <<None, None>>] }

\* every answer for the first repository, those with a non-empty listing for
\* the second
HubStates ==
    {h \in [Range(REPO_LIST) -> MainRepos \cup {NoRepo}] :
        h[REPO_LIST[2]] = NoRepo \/ h[REPO_LIST[2]].pulls # <<>>}

CacheFiles == {cache_file_of(REPO_LIST[i]) : i \in DOMAIN REPO_LIST}

Line(msg, repo_name) == [msg |-> msg, repo |-> repo_name]

\* lines 313-328
fieldnames ==
    <<"repo_name", "contributor_id", "issue_id", "issue_title", "issue_body",
      "issue_comments", "issue_state", "issue_created_at", "issue_closed_at",
      "opened_by", "issue_labels", "linked_pr_count", "modified_source_files",
      "commit_messages">>

\* lines 299-301 (continue) and 310-311: after a repository-level error the
\* loop goes on with the next repository
AfterRepoError_break(i) == Len(REPO_LIST) + 1
AfterRepoError(i) == i + 1

buildVars == <<repo, max_prs, scan, bpc>>

Init ==
    /\ gh \in HubStates
    /\ cache = [f \in CacheFiles |-> NoFile]
    /\ pc = "loop"
    /\ idx = 1
    /\ run = 1
    /\ all_csv_rows = <<>>
    /\ csv_file = NoFile
    /\ log = <<>>
    /\ issue_solver_data = <<>>
    /\ csv_rows = <<>>
    /\ repo = NoRepo /\ max_prs = MAX_PRS /\ scan = ScanStart /\ bpc = "idle"

Running == pc \in {"loop", "loaded", "built", "opened", "dumped"}
InLoop == pc = "loop" /\ idx <= Len(REPO_LIST)
Current == REPO_LIST[idx]

\* lines 279-284 of a later run of the program
StartRun ==
    /\ pc \in {"done", "crashed"}
    /\ run < MaxRuns
    /\ run' = run + 1
    /\ gh' \in HubStates
    /\ pc' = "loop"
    /\ idx' = 1
    /\ all_csv_rows' = <<>>
    /\ log' = <<>>
    /\ issue_solver_data' = <<>>
    /\ csv_rows' = <<>>
    /\ UNCHANGED <<cache, csv_file, buildVars>>

\* lines 286-294: the cache file exists
LoadCache ==
    /\ InLoop
    /\ CacheExists(cache[cache_file_of(Current)])
    /\ log' = log \o <<Line("Processing repository", Current),
                       Line("Loading cached data", Current)>>
    /\ LET loaded == json_load(cache[cache_file_of(Current)]) IN
       IF IsNone(loaded)
       THEN pc' = "crashed" /\ UNCHANGED issue_solver_data    \* JSONDecodeError
       ELSE pc' = "loaded" /\ issue_solver_data' = loaded.some
    /\ UNCHANGED <<gh, cache, idx, run, all_csv_rows, csv_file, csv_rows, buildVars>>

\* lines 286-291 and 295-302: no cache file
FetchAndBuild ==
    /\ InLoop
    /\ ~CacheExists(cache[cache_file_of(Current)])
    /\ \E up \in BOOLEAN :
       LET got == IF up THEN get_repo(gh, Current) ELSE None
           head == log \o <<Line("Processing repository", Current),
                            Line("Fetching data from GitHub API", Current)>>
       IN IF IsNone(got)
          THEN /\ log' = Append(head, Line("Error accessing repository", Current))
               /\ idx' = AfterRepoError(idx)
               /\ UNCHANGED <<pc, issue_solver_data>>
          ELSE /\ log' = head
               /\ LET built == build_issue_solver_data(got.some, MAX_PRS) IN
                  IF IsNone(built)
                  THEN pc' = "crashed" /\ UNCHANGED issue_solver_data
                  ELSE pc' = "built" /\ issue_solver_data' = built.some
               /\ UNCHANGED idx
    /\ UNCHANGED <<gh, cache, run, all_csv_rows, csv_file, csv_rows, buildVars>>

\* line 303: open(cache_file, "w") creates or empties the file
OpenCacheFile ==
    /\ pc = "built"
    /\ cache' = [cache EXCEPT ![cache_file_of(Current)] = Truncated]
    /\ pc' = "opened"
    /\ UNCHANGED <<gh, idx, run, all_csv_rows, csv_file, log, issue_solver_data,
                   csv_rows, buildVars>>

\* line 304, and the close at the end of the with block
DumpCache ==
    /\ pc = "opened"
    /\ cache' = [cache EXCEPT ![cache_file_of(Current)] = json_dump(issue_solver_data)]
    /\ pc' = "dumped"
    /\ UNCHANGED <<gh, idx, run, all_csv_rows, csv_file, log, issue_solver_data,
                   csv_rows, buildVars>>

\* lines 306-311
Flatten ==
    /\ pc \in {"loaded", "dumped"}
    /\ \E up \in BOOLEAN :
       LET got == IF up THEN get_repo(gh, Current) ELSE None IN
       IF IsNone(got)
       THEN /\ log' = Append(log, Line("Error generating CSV rows", Current))
            /\ idx' = AfterRepoError(idx)
            /\ UNCHANGED <<csv_rows, all_csv_rows>>
       ELSE /\ csv_rows' = generate_csv_rows(issue_solver_data, got.some, Current)
            /\ all_csv_rows' = all_csv_rows \o csv_rows'
            /\ idx' = idx + 1
            /\ UNCHANGED log
    /\ pc' = "loop"
    /\ UNCHANGED <<gh, cache, run, csv_file, issue_solver_data, buildVars>>

\* lines 313-336
WriteCsv ==
    /\ pc = "loop"
    /\ idx > Len(REPO_LIST)
    /\ csv_file' = [header |-> fieldnames, rows |-> all_csv_rows]
    /\ log' = Append(log, Line("Dataset CSV generated successfully", <<>>))
    /\ pc' = "done"
    /\ UNCHANGED <<gh, cache, idx, run, all_csv_rows, issue_solver_data, csv_rows,
                   buildVars>>

\* the process is terminated from outside while it runs
Crash ==
    /\ Running
    /\ pc' = "crashed"
    /\ UNCHANGED <<gh, cache, idx, run, all_csv_rows, csv_file, log,
                   issue_solver_data, csv_rows, buildVars>>

Next ==
    \/ StartRun \/ LoadCache \/ FetchAndBuild \/ OpenCacheFile \/ DumpCache
    \/ Flatten \/ WriteCsv \/ Crash

Spec == Init /\ [][Next]_vars

-----------------------------------------------------------------------------
(* Claims about the scan and the graph builder, under SpecBuild *)

Min(a, b) == IF a < b THEN a ELSE b
Max(a, b) == IF a > b THEN a ELSE b
NonEmpty(x) == x # <<>>

MergedAt(pulls) == {i \in DOMAIN pulls : pulls[i].merged}
\* listing positions of the first cap merged pull requests
WithinCap(pulls, cap) ==
    {i \in MergedAt(pulls) : Cardinality({j \in MergedAt(pulls) : j <= i}) <= cap}
ScanStopped == bpc \in {"scanned", "inverted", "returned", "flattened"}

\* C1: when the scan loop has stopped, it has counted exactly
\* min(max_prs, number of merged pull requests of the listing) pull requests
\* as merged, and it has retrieved no listing item after the max_prs-th merged
\* one, also when building the record of a merged pull request raised.  (Stated
\* for listings every item of which can be retrieved and classified.)
C1_CapIsExact ==
    (ScanStopped /\ \A i \in DOMAIN repo.pulls :
                        repo.pulls[i].listed /\ repo.pulls[i].complete)
    => /\ scan.processed_count = Min(max_prs, Cardinality(MergedAt(repo.pulls)))
       /\ \A i \in MergedAt(repo.pulls) :
            i <= scan.pos => i \in WithinCap(repo.pulls, max_prs)

\* C2: no failure on a single pull request leaves build_issue_solver_data as an
\* exception, the failure of the listing to deliver the next item included, and
\* every merged pull request within the cap that has a reference and does not
\* itself fail is in the returned PR-to-issue mapping.
C2_NoFailureAbortsScan ==
    /\ bpc # "raised"
    /\ ScanStopped =>
         \A i \in WithinCap(repo.pulls, max_prs) :
            ( /\ repo.pulls[i].listed /\ repo.pulls[i].complete
              /\ ~IsNone(repo.pulls[i].user)
              /\ referenced_issues_of(repo.pulls[i]) # <<>> )
            => HasKey(scan.pr_issue_mapping, repo.pulls[i].number)

\* C9: the commit_messages field of every row is the non-empty commit-message
\* strings of the issue's linked PRs, in linked-PR order, joined by " || ".
C9_CommitMessagesJoined ==
    bpc = "flattened" =>
      \A i \in DOMAIN csv_rows :
         LET prs == Lookup(issue_solver_data, IntKey(csv_rows[i].issue_id)).linked_prs
             msgs == [k \in DOMAIN prs |-> prs[k].commit_messages]
         IN csv_rows[i].commit_messages
                = join(COMMIT_MSG_DELIMITER, SelectSeq(msgs, NonEmpty))

\* C10: in the returned issue map no linked-PR list holds a pull request number
\* twice, so its length is the number of distinct scanned pull requests that
\* reference the issue.
C10_LinkedPrsDistinct ==
    bpc \in {"returned", "flattened"} =>
      \A e \in DOMAIN issue_solver_data :
         LET node == issue_solver_data[e].value
             prs == node.linked_prs
             m == scan.pr_issue_mapping
         IN /\ \A a, b \in DOMAIN prs : prs[a].number = prs[b].number => a = b
            /\ Len(prs) = Cardinality({k \in DOMAIN m :
                    node.issue_number \in Range(m[k].value.referenced_issues)})

-----------------------------------------------------------------------------
(* Claims about main, the cache artifact and the rows, under Spec *)

FileOf(i) == cache_file_of(REPO_LIST[i])
Said(msg, repo_name) == \E i \in DOMAIN log : log[i] = Line(msg, repo_name)
RowsOf(rows, repo_name) ==
    SelectSeq(rows, LAMBDA row : row.repo_name = repo_name)
RowsOfIssueIn(rows, n) == {i \in DOMAIN rows : rows[i].issue_id = n}

\* C3: generate_csv_rows emits, for every issue of the map it is given (built
\* in this run or loaded from the cache artifact), max(1, number of distinct
\* contributors) rows.
C3_RowsPerIssue ==
    [][ (pc \in {"loaded", "dumped"} /\ pc' = "loop" /\ log' = log)
        => \A e \in DOMAIN issue_solver_data :
              LET node == issue_solver_data[e].value IN
              Cardinality(RowsOfIssueIn(csv_rows', node.issue_number))
                 = Max(1, Cardinality(Range(node.solvers))) ]_vars

\* an issue without contributors, loaded from the cache, has produced its one
\* "unknown" row, next to an issue with a named contributor
C3_Witness ==
    /\ pc = "loop" /\ idx = 2
    /\ Said("Loading cached data", REPO_LIST[1])
    /\ \E e \in DOMAIN issue_solver_data : issue_solver_data[e].value.solvers = <<>>
    /\ \E i, j \in DOMAIN csv_rows :
          csv_rows[i].contributor_id = "unknown" /\ csv_rows[j].contributor_id = "alice"

\* C4: after a crash or fatal error, every cache artifact is absent or holds a
\* complete issue map.
C4_CacheAllOrNothing ==
    pc = "crashed" =>
       \A f \in CacheFiles : cache[f] = NoFile \/ "json" \in DOMAIN cache[f]

\* C5: when the cache artifact of the repository in hand exists, the run takes
\* the load path: it starts no fetch and no build, never writes the artifact,
\* and the rows it flattens carry exactly the artifact's issues, linked-PR
\* counts and contributors.
C5_CacheHitBypassesBuild ==
    [][ /\ (InLoop /\ cache[cache_file_of(Current)] # NoFile)
            => /\ pc' \in {"loaded", "crashed"}
               /\ cache' = cache
               /\ ~\E i \in DOMAIN log' :
                     i > Len(log) /\ log'[i].msg = "Fetching data from GitHub API"
        /\ pc = "loaded"
            => /\ cache' = cache
               /\ (pc' = "loop" /\ log' = log) =>
                    LET doc == cache[cache_file_of(Current)].json IN
                    /\ \A e \in DOMAIN doc :
                         LET node == doc[e].value
                             mine == RowsOfIssueIn(csv_rows', node.issue_number)
                         IN /\ {csv_rows'[i].contributor_id : i \in mine}
                                 = (IF node.solvers = <<>> THEN {"unknown"}
                                    ELSE Range(node.solvers))
                            /\ \A i \in mine :
                                  csv_rows'[i].linked_pr_count = Len(node.linked_prs)
                    /\ \A i \in DOMAIN csv_rows' :
                         \E e \in DOMAIN doc :
                            doc[e].value.issue_number = csv_rows'[i].issue_id
                    /\ all_csv_rows' = all_csv_rows \o csv_rows' ]_vars

\* a later run has flattened rows from an artifact although the remote source
\* would now yield a different issue map
C5_Witness ==
    /\ run > 1
    /\ pc = "loop" /\ idx = 2
    /\ Said("Loading cached data", REPO_LIST[1])
    /\ csv_rows # <<>>
    /\ gh[REPO_LIST[1]] # NoRepo
    /\ LET now == build_issue_solver_data(gh[REPO_LIST[1]], MAX_PRS) IN
       ~IsNone(now) /\ json_dump(now.some) # cache[FileOf(1)]

SameIssueMap(a, b) ==
    /\ Len(a) = Len(b)
    /\ \A i \in DOMAIN a :
          /\ a[i].key = b[i].key
          /\ [a[i].value EXCEPT !.solvers = Range(@)]
                = [b[i].value EXCEPT !.solvers = Range(@)]

\* C6: reading back the cache artifact just written yields the issue map that
\* build_issue_solver_data returned: the same keys and the same field values,
\* the contributor field compared as a collection.
C6_CacheRoundTrip ==
    pc = "dumped" =>
       LET back == json_load(cache[cache_file_of(Current)]) IN
       ~IsNone(back) /\ SameIssueMap(back.some, issue_solver_data)

\* C7: every row carries the body, comments, state and created/closed
\* timestamps that the remote source returns for the issue in the run that
\* flattens it.
C7_RowsCarryFreshIssueData ==
    \A i \in DOMAIN all_csv_rows :
       LET row == all_csv_rows[i]
           r == gh[row.repo_name]
       IN (r # NoRepo /\ ~IsNone(get_issue(r, row.issue_id))) =>
            LET fresh == get_issue_details(r, row.issue_id) IN
            /\ row.issue_body = fresh.body
            /\ row.issue_comments = fresh.comments
            /\ row.issue_state = fresh.state
            /\ row.issue_created_at = fresh.created_at
            /\ row.issue_closed_at = fresh.closed_at

RepoErrors == {"Error accessing repository", "Error generating CSV rows"}
Failed(repo_name) == \E m \in RepoErrors : Said(m, repo_name)
Processed ==
    LET heads == SelectSeq(log, LAMBDA l : l.msg = "Processing repository")
    IN [i \in DOMAIN heads |-> heads[i].repo]

\* C8: a repository that cannot be resolved, on either path, contributes no
\* rows and gets no cache artifact from the failure; the step that meets the
\* failure goes on to the next repository; and a run that ends has processed
\* every repository in order and written the dataset with the rows of the
\* repositories that were resolved.
C8_RepoFailureIsLocal ==
    /\ [](\A k \in DOMAIN REPO_LIST :
            LET name == REPO_LIST[k] IN
            /\ Failed(name) => RowsOf(all_csv_rows, name) = <<>>
            /\ Said("Error accessing repository", name) => cache[FileOf(k)] = NoFile)
    /\ [](pc = "done" =>
            /\ Processed = REPO_LIST
            /\ csv_file = [header |-> fieldnames, rows |-> all_csv_rows]
            /\ \A k \in DOMAIN REPO_LIST :
                 LET name == REPO_LIST[k] IN
                 ~Failed(name) =>
                    /\ "json" \in DOMAIN cache[FileOf(k)]
                    /\ RowsOf(csv_file.rows, name)
                         = generate_csv_rows(cache[FileOf(k)].json, gh[name], name))
    /\ [][ (Len(log') > Len(log) /\ log'[Len(log')].msg \in RepoErrors)
           => /\ pc' = "loop" /\ idx' = idx + 1
              /\ cache' = cache /\ all_csv_rows' = all_csv_rows ]_vars

\* a finished run in which one repository failed to resolve on the cache-miss
\* path or on the cache-hit path and the other one delivered rows
C8_Witness ==
    /\ pc = "done"
    /\ Failed(REPO_LIST[1])
    /\ ~Failed(REPO_LIST[2])
    /\ RowsOf(csv_file.rows, REPO_LIST[2]) # <<>>

=============================================================================
